---- MODULE Spec2Model ----
(***************************************************************************)
(* Exodusify workflow: canonicalization, manifest/inventory matching, the  *)
(* reconciliation reports, playlist export and the import pipeline of      *)
(* src/exedusify_workflow_script.py.                                       *)
(*                                                                         *)
(* Strings are sequences of one-character strings, so that the regular     *)
(* expressions and character filters of the source act on characters.      *)
(***************************************************************************)
EXTENDS Integers, Sequences, FiniteSets, TLC

VARIABLES
    \* canonicalize_string applied to an input, then to its own output
    value, once, twice, cpc,
    \* the read path: the two tables, the matcher's output and what is derived
    spotify_df, library_df, duration_tolerance_ms, matched_df, shopping_df,
    stats, playlist_files, export_log, mpc,
    \* the import: the staging tree, the music library, and a run's position
    add_tree, add_dirs, music_files, music_dirs, add_files, idx, actions,
    playlist_updates, logs, run, ipc

cvars == <<value, once, twice, cpc>>
mvars == <<spotify_df, library_df, duration_tolerance_ms, matched_df, shopping_df,
           stats, playlist_files, export_log, mpc>>
fsvars == <<add_tree, add_dirs, music_files, music_dirs>>
ivars == <<fsvars, add_files, idx, actions, playlist_updates, logs, run, ipc>>
vars == <<cvars, mvars, ivars>>

\* a part of the program that a specification does not exercise stays idle
CanonIdle ==
    /\ value = <<>>
    /\ once = <<>>
    /\ twice = <<>>
    /\ cpc = "idle"

MatchIdle ==
    /\ spotify_df = <<>>
    /\ library_df = <<>>
    /\ duration_tolerance_ms = 0
    /\ matched_df = <<>>
    /\ shopping_df = <<>>
    /\ stats = <<>>
    /\ playlist_files = <<>>
    /\ export_log = <<>>
    /\ mpc = "idle"

ImportIdle ==
    /\ add_tree = {}
    /\ add_dirs = {}
    /\ music_files = <<>>
    /\ music_dirs = {}
    /\ add_files = <<>>
    /\ idx = 0
    /\ actions = <<>>
    /\ playlist_updates = <<>>
    /\ logs = <<>>
    /\ run = 0
    /\ ipc = "idle"

----------------------------------------------------------------------------
(* Characters                                                              *)

UpperChars == <<"A","B","C","D","E","F","G","H","I","J","K","L","M",
                "N","O","P","Q","R","S","T","U","V","W","X","Y","Z">>
LowerChars == <<"a","b","c","d","e","f","g","h","i","j","k","l","m",
                "n","o","p","q","r","s","t","u","v","w","x","y","z">>
DigitChars == <<"0","1","2","3","4","5","6","7","8","9">>

Range(s) == {s[i] : i \in 1..Len(s)}

\* str.lower() on one character
LowerChar(c) ==
    IF \E i \in 1..26 : UpperChars[i] = c
    THEN LowerChars[CHOOSE i \in 1..26 : UpperChars[i] = c]
    ELSE c

Lower(s) == [i \in 1..Len(s) |-> LowerChar(s[i])]

\* \s of the regular expressions and the whitespace of str.strip()
IsSpace(c) == c = " "

\* the complement of the class [^a-z0-9]
IsLowerAlnum(c) == c \in Range(LowerChars) \cup Range(DigitChars)

\* unidecode: ASCII is kept, an accented letter becomes its plain letter
Unidecode(s) ==
    [i \in 1..Len(s) |-> IF s[i] = "é" THEN "e"
                         ELSE IF s[i] = "É" THEN "E" ELSE s[i]]

RECURSIVE LStrip(_)
LStrip(s) == IF s # <<>> /\ IsSpace(Head(s)) THEN LStrip(Tail(s)) ELSE s

RECURSIVE RStrip(_)
RStrip(s) ==
    IF s # <<>> /\ IsSpace(s[Len(s)]) THEN RStrip(SubSeq(s, 1, Len(s) - 1)) ELSE s

\* str.strip()
Strip(s) == RStrip(LStrip(s))

\* whether the literal lit (lower case) occurs in s at position i, ignoring case
MatchesAt(s, i, lit) ==
    /\ i + Len(lit) - 1 <= Len(s)
    /\ \A k \in 1..Len(lit) : LowerChar(s[i + k - 1]) = lit[k]

----------------------------------------------------------------------------
(* canonicalize_string                                                     *)

FeatOpen == <<"(","f","e","a","t",".">>

\* FEAT_PATTERN.sub("", s) from position i on: r"\(feat\..*?\)", IGNORECASE.
\* The leftmost "(feat." that has a ")" after it is removed up to the first
\* such ")", and the scan goes on after it.
RECURSIVE FeatSubFrom(_, _)
FeatSubFrom(s, i) ==
    IF i > Len(s) THEN <<>>
    ELSE IF /\ MatchesAt(s, i, FeatOpen)
            /\ \E j \in (i + 6)..Len(s) : s[j] = ")"
         THEN LET j == CHOOSE j \in (i + 6)..Len(s) :
                          /\ s[j] = ")"
                          /\ \A k \in (i + 6)..(j - 1) : s[k] # ")"
              IN FeatSubFrom(s, j + 1)
         ELSE <<s[i]>> \o FeatSubFrom(s, i + 1)

FeatSub(s) == FeatSubFrom(s, 1)

RemixWords == {<<"r","e","m","a","s","t","e","r">>, <<"r","e","m","i","x">>,
               <<"e","d","i","t">>, <<"m","i","x">>}

\* the first position after i that holds no whitespace (Len(s) + 1 if none)
RECURSIVE SkipSpaces(_, _)
SkipSpaces(s, i) ==
    IF i <= Len(s) /\ IsSpace(s[i]) THEN SkipSpaces(s, i + 1) ELSE i

\* whether REMIX_PATTERN matches at position i:
\* r"-\s*(remaster(ed)?|remix|edit|mix).*", IGNORECASE
RemixAt(s, i) ==
    /\ s[i] = "-"
    /\ \E w \in RemixWords : MatchesAt(s, SkipSpaces(s, i + 1), w)

\* REMIX_PATTERN.sub("", s): the leftmost match runs to the end of the string
RemixSub(s) ==
    IF \E i \in 1..Len(s) : RemixAt(s, i)
    THEN LET i == CHOOSE i \in 1..Len(s) :
                      RemixAt(s, i) /\ \A k \in 1..(i - 1) : ~RemixAt(s, k)
         IN SubSeq(s, 1, i - 1)
    ELSE s

RECURSIVE DropNonAlnum(_)
DropNonAlnum(s) ==
    IF s # <<>> /\ ~IsLowerAlnum(Head(s)) THEN DropNonAlnum(Tail(s)) ELSE s

\* A slug-style separator in place of the space.
RECURSIVE NonAlnumSubHyphen(_)
NonAlnumSubHyphen(s) ==
    IF s = <<>> THEN <<>>
    ELSE IF IsLowerAlnum(Head(s)) THEN <<Head(s)>> \o NonAlnumSubHyphen(Tail(s))
    ELSE <<"-">> \o NonAlnumSubHyphen(DropNonAlnum(Tail(s)))

\* NON_ALNUM.sub(" ", s): every maximal run of [^a-z0-9] becomes one space
RECURSIVE NonAlnumSub(_)
NonAlnumSub(s) ==
    IF s = <<>> THEN <<>>
    ELSE IF IsLowerAlnum(Head(s)) THEN <<Head(s)>> \o NonAlnumSub(Tail(s))
    ELSE <<" ">> \o NonAlnumSub(DropNonAlnum(Tail(s)))

RECURSIVE DropSpaces(_)
DropSpaces(s) ==
    IF s # <<>> /\ IsSpace(Head(s)) THEN DropSpaces(Tail(s)) ELSE s

\* re.sub(r"\s+", " ", s)
RECURSIVE CollapseSpaces(_)
CollapseSpaces(s) ==
    IF s = <<>> THEN <<>>
    ELSE IF IsSpace(Head(s)) THEN <<" ">> \o CollapseSpaces(DropSpaces(Tail(s)))
    ELSE <<Head(s)>> \o CollapseSpaces(Tail(s))

\* An absent value (None) and the empty string are both the empty sequence.
canonicalize_string(v) ==
    IF v = <<>> THEN <<>>
    ELSE CollapseSpaces(Strip(NonAlnumSub(Lower(RemixSub(FeatSub(Unidecode(v)))))))

----------------------------------------------------------------------------
(* Ordering of strings, as Python compares them (by code point)            *)

CodePointOrder ==
    <<" ", "(", ")", "-", ".", "/">> \o DigitChars \o <<":">> \o UpperChars
    \o <<"_">> \o LowerChars \o <<"É", "é">>

Ord(c) == CHOOSE i \in 1..Len(CodePointOrder) : CodePointOrder[i] = c

RECURSIVE StrLess(_, _)
StrLess(a, b) ==
    IF b = <<>> THEN FALSE
    ELSE IF a = <<>> THEN TRUE
    ELSE IF Head(a) # Head(b) THEN Ord(Head(a)) < Ord(Head(b))
    ELSE StrLess(Tail(a), Tail(b))

\* sorted(S) for a finite set S of strings
SortStrings(S) ==
    [i \in 1..Cardinality(S) |->
        CHOOSE x \in S : Cardinality({y \in S : StrLess(y, x)}) = i - 1]

RECURSIVE Flatten(_)
Flatten(ss) == IF ss = <<>> THEN <<>> ELSE Head(ss) \o Flatten(Tail(ss))

----------------------------------------------------------------------------
(* safe_path_component                                                     *)

InvalidPathChars == {"<", ">", ":", "\"", "/", "\\", "|", "?", "*"}

\* INVALID_PATH_CHARS.sub("", s)
RemoveInvalid(s) == SelectSeq(s, LAMBDA c : c \notin InvalidPathChars)

\* .replace('/', '-').replace('\\', '-')
ReplaceSlashes(s) == [i \in 1..Len(s) |-> IF s[i] \in {"/", "\\"} THEN "-" ELSE s[i]]

safe_path_component(v, fallback) ==
    LET candidate == Strip(ReplaceSlashes(RemoveInvalid(Unidecode(
                         IF v # <<>> THEN Strip(v) ELSE fallback))))
    IN IF candidate # <<>> THEN candidate ELSE fallback

\* str.replace('_', ' ')
UnderscoresToSpaces(s) == [i \in 1..Len(s) |-> IF s[i] = "_" THEN " " ELSE s[i]]

----------------------------------------------------------------------------
(* The tables of the read path                                             *)

\* pd.NA / NaN in a duration column, and in the file_path column
NA == -1
NoPath == "<NA>"

MaxRows == 2
MaxInv == 2

PlaylistNames == { <<"A"," ","B">>, <<"A","_","B">>, <<"A",":","B">> }
ArtistKeys == {"a"}
TitleKeys == {"s", "t"}
ManifestDurations == {NA, 1, 3}
LocalDurations == {NA, 1}
Tolerances == {0, 1}
FilePaths == <<"p1", "p2", "p3", "p4">>

ManifestRows ==
    [playlist_name : PlaylistNames, artist_canonical : ArtistKeys,
     title_canonical : TitleKeys, duration : ManifestDurations]

Key(r) == <<r.artist_canonical, r.title_canonical>>

\* keys are compared as the table sorts them; the model's keys are single letters
KeyLess(k, l) ==
    \/ StrLess(<<k[1]>>, <<l[1]>>)
    \/ k[1] = l[1] /\ StrLess(<<k[2]>>, <<l[2]>>)

SeqsUpTo(S, n) == UNION {[1..k -> S] : k \in 0..n}

\* scan_music_library returns the index sorted by (artist_canonical,
\* title_canonical, file_path), one record per file
Inventories ==
    {inv \in SeqsUpTo([artist_canonical : ArtistKeys, title_canonical : TitleKeys,
                       duration_ms : LocalDurations], MaxInv) :
        \A i \in 1..(Len(inv) - 1) :
            Key(inv[i]) = Key(inv[i + 1]) \/ KeyLess(Key(inv[i]), Key(inv[i + 1]))}

WithPaths(inv) ==
    [i \in 1..Len(inv) |->
        [file_path |-> FilePaths[i], artist_canonical |-> inv[i].artist_canonical,
         title_canonical |-> inv[i].title_canonical, duration_ms |-> inv[i].duration_ms]]

----------------------------------------------------------------------------
(* match_tracks                                                            *)

Abs(x) == IF x < 0 THEN -x ELSE x

MergedRow(m, file_path, duration_ms_local) ==
    [playlist_name |-> m.playlist_name, artist_canonical |-> m.artist_canonical,
     title_canonical |-> m.title_canonical, duration |-> m.duration,
     file_path |-> file_path, duration_ms_local |-> duration_ms_local]

\* spotify_df.merge(lib_cols, how='left', on=[artist_canonical, title_canonical]):
\* the left rows in their order, each once per right row of its key (in the
\* right table's order), or once with the right columns absent
LeftMerge(left, right) ==
    Flatten([i \in 1..Len(left) |->
        LET hits == SelectSeq(right, LAMBDA r : Key(r) = Key(left[i]))
        IN IF hits = <<>> THEN <<MergedRow(left[i], NoPath, NA)>>
           ELSE [j \in 1..Len(hits) |->
                    MergedRow(left[i], hits[j].file_path, hits[j].duration_ms)]])

\* A numeric column holding an absent value is float64, otherwise int64.  The
\* difference of the two duration columns is an integer column only when both are.
IntegerDiff(left, right, merged) ==
    /\ \A i \in 1..Len(left) : left[i].duration # NA
    /\ \A i \in 1..Len(right) : right[i].duration_ms # NA
    /\ \A i \in 1..Len(merged) : merged[i].duration_ms_local # NA

\* mask & (a - b).abs() > tol groups as (mask & (a - b).abs()) > tol.  The
\* conjunction of the boolean mask with the numeric column is a boolean column:
\* with an integer column the bitwise and keeps the lowest bit, with a float
\* column the column is first turned to booleans (non-zero, absent is False).
\* That boolean, as 0 or 1, is what is compared with the tolerance.
Mismatched(row, intDiff, tol) ==
    LET mask == row.duration_ms_local # NA /\ row.duration # NA
        diff == Abs(row.duration - row.duration_ms_local)
        anded == IF intDiff THEN mask /\ diff % 2 = 1 ELSE mask /\ diff # 0
    IN (IF anded THEN 1 ELSE 0) > tol

match_tracks(left, right, tol) ==
    IF left = <<>> THEN <<>>
    ELSE IF right = <<>>
    THEN [i \in 1..Len(left) |-> MergedRow(left[i], NoPath, NA)]
    ELSE LET merged == LeftMerge(left, right)
             intDiff == IntegerDiff(left, right, merged)
         IN [i \in 1..Len(merged) |->
                IF Mismatched(merged[i], intDiff, tol)
                THEN [merged[i] EXCEPT !.file_path = NoPath, !.duration_ms_local = NA]
                ELSE merged[i]]

MatchTracks ==
    /\ mpc = "loaded"
    /\ matched_df' = match_tracks(spotify_df, library_df, duration_tolerance_ms)
    /\ mpc' = "matched"
    /\ UNCHANGED <<spotify_df, library_df, duration_tolerance_ms, shopping_df, stats,
                   playlist_files, export_log, cvars, ivars>>

----------------------------------------------------------------------------
(* build_shopping_list                                                     *)

\* the snapshot whose rows carry is_liked
LikedPlaylists == { <<"A",":","B">> }

Matched(row) == row.file_path # NoPath

\* The filter on the missing file is left out.
MissingRowsUnfiltered(df) == df

\* matched_df[matched_df['file_path'].isna()]
MissingRows(df) == SelectSeq(df, LAMBDA r : ~Matched(r))

\* 'first' of a group column: the first value that is present
FirstDuration(rows) ==
    LET known == SelectSeq(rows, LAMBDA r : r.duration # NA)
    IN IF known = <<>> THEN NA ELSE known[1].duration

\* One row of the grouped frame.  Artist and Title are the display fields of the
\* group's first row; the model writes a display field as the key it canonicalizes
\* to, so <<Artist, Title>> is the group's (artist_canonical, title_canonical).
ShoppingGroup(missing, k) ==
    LET rows == SelectSeq(missing, LAMBDA r : Key(r) = k)
        names == {rows[i].playlist_name : i \in 1..Len(rows)}
    IN [Artist |-> rows[1].artist_canonical, Title |-> rows[1].title_canonical,
        Duration_ms |-> FirstDuration(rows),
        Playlists_Count |-> Cardinality(names),
        Playlists |-> SortStrings(names),
        Is_Liked |-> names \cap LikedPlaylists # {}]

\* sort_values([Playlists_Count, Is_Liked, Artist, Title],
\*             ascending=[False, False, True, True])
ShoppingBefore(x, y) ==
    \/ x.Playlists_Count > y.Playlists_Count
    \/ /\ x.Playlists_Count = y.Playlists_Count
       /\ \/ x.Is_Liked /\ ~y.Is_Liked
          \/ /\ x.Is_Liked = y.Is_Liked
             /\ KeyLess(<<x.Artist, x.Title>>, <<y.Artist, y.Title>>)

build_shopping_list(df) ==
    LET missing == MissingRows(df)
        groups == {ShoppingGroup(missing, k) :
                      k \in {Key(missing[i]) : i \in 1..Len(missing)}}
    IN [i \in 1..Cardinality(groups) |->
           CHOOSE g \in groups :
               Cardinality({h \in groups : ShoppingBefore(h, g)}) = i - 1]

BuildShoppingList ==
    /\ mpc = "matched"
    /\ shopping_df' = build_shopping_list(matched_df)
    /\ mpc' = "shopped"
    /\ UNCHANGED <<spotify_df, library_df, duration_tolerance_ms, matched_df, stats,
                   playlist_files, export_log, cvars, ivars>>

----------------------------------------------------------------------------
(* Playlist statistics                                                     *)

\* round() of n / d to an integer, ties to the even one (n >= 0, d > 0)
RoundHalfEven(n, d) ==
    LET q == n \div d
        r == n % d
    IN IF 2 * r > d THEN q + 1
       ELSE IF 2 * r < d THEN q
       ELSE q + (q % 2)

\* The quotient taken the wrong way round.
Percent_CompleteSwapped(matched, total) ==
    IF matched = 0 THEN 0 ELSE RoundHalfEven(total * 1000, matched)

\* (Matched_Tracks / Total_Tracks * 100).round(1), in tenths of a percent
Percent_Complete(matched, total) == RoundHalfEven(matched * 1000, total)

PlaylistStats(df, name) ==
    LET group == SelectSeq(df, LAMBDA r : r.playlist_name = name)
        total == Len(group)
        matched == Len(SelectSeq(group, LAMBDA r : Matched(r)))
    IN [playlist_name |-> name, Total_Tracks |-> total, Matched_Tracks |-> matched,
        Liked_Snapshot |-> name \in LikedPlaylists,
        Missing_Tracks |-> total - matched,
        Percent_Complete |-> Percent_Complete(matched, total)]

\* sort_values(['Percent_Complete', 'playlist_name'], ascending=[False, True])
StatsBefore(x, y) ==
    \/ x.Percent_Complete > y.Percent_Complete
    \/ /\ x.Percent_Complete = y.Percent_Complete
       /\ StrLess(x.playlist_name, y.playlist_name)

PlaylistStatistics(df) ==
    LET rows == {PlaylistStats(df, n) : n \in {df[i].playlist_name : i \in 1..Len(df)}}
    IN [i \in 1..Cardinality(rows) |->
           CHOOSE g \in rows : Cardinality({h \in rows : StatsBefore(h, g)}) = i - 1]

ShowStatistics ==
    /\ mpc = "shopped"
    /\ stats' = PlaylistStatistics(matched_df)
    /\ mpc' = "stats"
    /\ UNCHANGED <<spotify_df, library_df, duration_tolerance_ms, matched_df,
                   shopping_df, playlist_files, export_log, cvars, ivars>>

----------------------------------------------------------------------------
(* export_playlists                                                        *)

PlaylistFallback == <<"P","l","a","y","l","i","s","t">>

human_name(name) == UnderscoresToSpaces(name)

\* the stem of the playlist's file under export_dir
safe_name(name) == safe_path_component(human_name(name), PlaylistFallback)

\* the two lines of a row that has a resolved file
TrackEntry(row) ==
    LET duration_ms == IF row.duration # NA THEN row.duration ELSE row.duration_ms_local
        duration_seconds == IF duration_ms # NA THEN RoundHalfEven(duration_ms, 1000)
                            ELSE -1
    IN << <<"#EXTINF", duration_seconds, row.artist_canonical, row.title_canonical>>,
          <<"../Music/", row.file_path>> >>

\* what is written through the handle of one playlist
PlaylistLines(group) ==
    << <<"#EXTM3U">> >> \o
    Flatten([i \in 1..Len(group) |->
                IF Matched(group[i]) THEN TrackEntry(group[i]) ELSE <<>>])

\* open(playlist_path, 'w') and the writes: the file holds these lines and nothing else
WriteFile(files, name, lines) ==
    [n \in DOMAIN files \cup {name} |-> IF n = name THEN lines ELSE files[n]]

\* the loop over matched_df.groupby('playlist_name'), which yields the groups
\* in ascending order of the name; names is that order
RECURSIVE ExportGroups(_, _, _, _)
ExportGroups(df, names, files, log) ==
    IF names = <<>> THEN [files |-> files, log |-> log]
    ELSE LET name == Head(names)
             group == SelectSeq(df, LAMBDA r : r.playlist_name = name)
             written == Len(SelectSeq(group, LAMBDA r : Matched(r)))
         IN ExportGroups(df, Tail(names),
                WriteFile(files, safe_name(name), PlaylistLines(group)),
                Append(log, [playlist_name |-> human_name(name),
                             playlist_file |-> safe_name(name),
                             tracks_written |-> written]))

export_playlists(df, files) ==
    ExportGroups(df, SortStrings({df[i].playlist_name : i \in 1..Len(df)}), files, <<>>)

ExportPlaylists ==
    /\ mpc = "stats"
    /\ LET out == export_playlists(matched_df, playlist_files)
       IN /\ playlist_files' = out.files
          /\ export_log' = out.log
    /\ mpc' = "exported"
    /\ UNCHANGED <<spotify_df, library_df, duration_tolerance_ms, matched_df,
                   shopping_df, stats, cvars, ivars>>

----------------------------------------------------------------------------
(* The read path: the script's cells, in their order                       *)

MatchInit ==
    /\ spotify_df \in SeqsUpTo(ManifestRows, MaxRows)
    /\ library_df \in {WithPaths(inv) : inv \in Inventories}
    /\ duration_tolerance_ms \in Tolerances
    /\ matched_df = <<>>
    /\ shopping_df = <<>>
    /\ stats = <<>>
    /\ playlist_files = <<>>
    /\ export_log = <<>>
    /\ mpc = "loaded"
    /\ CanonIdle
    /\ ImportIdle

MatchNext == MatchTracks \/ BuildShoppingList \/ ShowStatistics \/ ExportPlaylists

SpecMatch == MatchInit /\ [][MatchNext]_vars

AfterMatch == mpc \in {"matched", "shopped", "stats", "exported"}

\* C1: a row of the matcher's output that has a resolved file_path lacks one of
\* the two durations, or its durations differ by at most the tolerance.
C1_DurationGate ==
    AfterMatch =>
        \A i \in 1..Len(matched_df) :
            Matched(matched_df[i]) =>
                \/ matched_df[i].duration = NA
                \/ matched_df[i].duration_ms_local = NA
                \/ Abs(matched_df[i].duration - matched_df[i].duration_ms_local)
                       <= duration_tolerance_ms

\* C2: the matcher returns exactly one row per manifest row, in the manifest's
\* order, whatever the inventory holds (duplicates of a key included).
C2_OneRowPerManifestRow ==
    AfterMatch =>
        /\ Len(matched_df) = Len(spotify_df)
        /\ \A i \in 1..Len(matched_df) :
               /\ matched_df[i].playlist_name = spotify_df[i].playlist_name
               /\ Key(matched_df[i]) = Key(spotify_df[i])

ShoppingKeys == {<<shopping_df[i].Artist, shopping_df[i].Title>> : i \in 1..Len(shopping_df)}

AfterShopping == mpc \in {"shopped", "stats", "exported"}

\* C7 as claimed: no key that has an accepted match (a row with a resolved
\* file_path) is a group of the shopping list.
C7_NoMatchedKeyInShoppingList ==
    AfterShopping =>
        \A i \in 1..Len(matched_df) :
            Matched(matched_df[i]) => Key(matched_df[i]) \notin ShoppingKeys

\* C7 as amended: the groups of the shopping list are exactly the keys of the
\* rows without a resolved file_path, one group per key; so a key whose rows all
\* have an accepted match is no group of the list.
C7_ShoppingListIsUnmatchedKeys ==
    AfterShopping =>
        /\ ShoppingKeys = {Key(matched_df[i]) :
                              i \in {j \in 1..Len(matched_df) : ~Matched(matched_df[j])}}
        /\ Cardinality(ShoppingKeys) = Len(shopping_df)

\* a shopping list that leaves out a key whose only row is matched, next to a
\* listed key
C7_Witness ==
    /\ AfterShopping
    /\ shopping_df # <<>>
    /\ \E i \in 1..Len(matched_df) :
           Matched(matched_df[i]) /\ Key(matched_df[i]) \notin ShoppingKeys

RowsOf(name) == SelectSeq(matched_df, LAMBDA r : r.playlist_name = name)

\* C8: after the export, the file of every playlist of the matched table holds the
\* header and two lines per row with a resolved file, and the log reports that
\* number of rows as tracks_written.
C8_ExportLineCount ==
    mpc = "exported" =>
        \A i \in 1..Len(matched_df) :
            LET name == matched_df[i].playlist_name
                m == Len(SelectSeq(RowsOf(name), LAMBDA r : Matched(r)))
            IN /\ safe_name(name) \in DOMAIN playlist_files
               /\ Len(playlist_files[safe_name(name)]) = 1 + 2 * m
               /\ \E k \in 1..Len(export_log) :
                      /\ export_log[k].playlist_name = human_name(name)
                      /\ export_log[k].tracks_written = m

\* C9: in every row of the statistics table Matched_Tracks + Missing_Tracks =
\* Total_Tracks and Percent_Complete lies between 0 and 100 (kept in tenths).
C9_StatsInvariant ==
    mpc \in {"stats", "exported"} =>
        \A i \in 1..Len(stats) :
            /\ stats[i].Matched_Tracks + stats[i].Missing_Tracks = stats[i].Total_Tracks
            /\ stats[i].Matched_Tracks = Len(SelectSeq(RowsOf(stats[i].playlist_name),
                                                       LAMBDA r : Matched(r)))
            /\ stats[i].Total_Tracks = Len(RowsOf(stats[i].playlist_name))
            /\ 0 <= stats[i].Percent_Complete
            /\ stats[i].Percent_Complete <= 1000

\* a table with a playlist none of whose rows is matched and one all of whose rows
\* are, the second of them with a share that is rounded
C9_Witness ==
    /\ mpc = "stats"
    /\ \E i, j \in 1..Len(stats) :
           /\ stats[i].Matched_Tracks = 0
           /\ stats[i].Percent_Complete = 0
           /\ stats[j].Matched_Tracks = stats[j].Total_Tracks
           /\ stats[j].Percent_Complete = 1000

----------------------------------------------------------------------------
(* Inputs of the canonicalizer: concatenations of at most MaxPieces pieces  *)

MaxPieces == 3

Pieces == { <<"A">>, <<"b">>, <<"7">>, <<" ">>, <<"-">>, <<")">>, <<"é">>, <<"/">>,
            <<"m","i","x">>, <<"(","F","e","a","t",".">>,
            <<"(","f","e","a","t","."," ","b",")">>,
            <<"-"," ","R","e","m","i","x">> }

RECURSIVE Concats(_)
Concats(n) ==
    IF n = 0 THEN {<<>>}
    ELSE LET shorter == Concats(n - 1)
         IN shorter \cup {p \o s : p \in Pieces, s \in shorter}

CanonInputs == Concats(MaxPieces)

CanonInit ==
    /\ value \in CanonInputs
    /\ once = <<>>
    /\ twice = <<>>
    /\ cpc = "input"
    /\ MatchIdle
    /\ ImportIdle

CanonOnce ==
    /\ cpc = "input"
    /\ once' = canonicalize_string(value)
    /\ cpc' = "once"
    /\ UNCHANGED <<value, twice, mvars, ivars>>

CanonTwice ==
    /\ cpc = "once"
    /\ twice' = canonicalize_string(once)
    /\ cpc' = "twice"
    /\ UNCHANGED <<value, once, mvars, ivars>>

CanonNext == CanonOnce \/ CanonTwice

SpecCanon == CanonInit /\ [][CanonNext]_vars

\* C10: canonicalize_string is idempotent: applying it to its own output
\* gives that output again, for every input string.
C10_Idempotent == cpc = "twice" => twice = once

\* an input whose feat. annotation and hyphenated remix suffix are both removed
C10_Witness ==
    /\ cpc = "twice"
    /\ FeatSub(value) # value
    /\ RemixSub(FeatSub(value)) # FeatSub(value)
    /\ once # <<>>

----------------------------------------------------------------------------
(* Paths.  A path is the sequence of its components below its root; a file *)
(* name is a string.                                                       *)

\* the position of the "." that starts the suffix of a file name, 0 if it has none
\* (pathlib: the last dot, neither first nor last character of the name)
SuffixDot(name) ==
    LET dots == {i \in 1..Len(name) : name[i] = "."}
        last == CHOOSE i \in dots : \A j \in dots : j <= i
    IN IF dots # {} /\ 1 < last /\ last < Len(name) THEN last ELSE 0

\* Path.suffix and Path.stem
Suffix(name) ==
    IF SuffixDot(name) = 0 THEN <<>> ELSE SubSeq(name, SuffixDot(name), Len(name))

Stem(name) ==
    IF SuffixDot(name) = 0 THEN name ELSE SubSeq(name, 1, SuffixDot(name) - 1)

FileName(path) == path[Len(path)]

\* Paths order by their components, a component by its characters
RECURSIVE PathLess(_, _)
PathLess(p, q) ==
    IF q = <<>> THEN FALSE
    ELSE IF p = <<>> THEN TRUE
    ELSE IF Head(p) # Head(q) THEN StrLess(Head(p), Head(q))
    ELSE PathLess(Tail(p), Tail(q))

\* the directories above a path, and a directory with the directories above it
Parents(path) == {SubSeq(path, 1, k) : k \in 1..(Len(path) - 1)}
Prefixes(dir) == {SubSeq(dir, 1, k) : k \in 1..Len(dir)}

----------------------------------------------------------------------------
(* process_new_additions                                                   *)

SUPPORTED_IMPORT_SUFFIXES ==
    { <<".","m","p","3">>, <<".","f","l","a","c">>, <<".","m","4","a">>, <<".","a","a","c">>, <<".","o","g","g">>, <<".","w","a","v">> }

PLAYLIST_STAGE_FOLDER == <<"T","o"," ","P","l","a","y","l","i","s","t">>

UnknownArtist == <<"U","n","k","n","o","w","n"," ","A","r","t","i","s","t">>
UnknownAlbum == <<"U","n","k","n","o","w","n"," ","A","l","b","u","m">>

\* the stems of the CSV files under spotify_playlists/
PlaylistCsvStems == { <<"P","L">> }

friendly_playlist_name(stem) == Strip(UnderscoresToSpaces(stem))

\* the keys of staging_lookup: the sub-folders of the "To Playlist" folder
StagingDirs ==
    {<<PLAYLIST_STAGE_FOLDER,
       safe_path_component(friendly_playlist_name(c), PlaylistFallback)>> :
        c \in PlaylistCsvStems}

\* staging_lookup[staging_dir], or absent
PlaylistTarget(f) ==
    IF /\ Len(f.path) >= 2
       /\ f.path[1] = PLAYLIST_STAGE_FOLDER
       /\ <<f.path[1], f.path[2]>> \in StagingDirs
    THEN LET names == {friendly_playlist_name(c) : c \in
                          {d \in PlaylistCsvStems :
                              safe_path_component(friendly_playlist_name(d),
                                                  PlaylistFallback) = f.path[2]}}
         IN SortStrings(names)[Cardinality(names)]
    ELSE <<>>

\* the loop's two filters: a regular file with a supported suffix
Candidate(f) == Lower(Suffix(FileName(f.path))) \in SUPPORTED_IMPORT_SUFFIXES

\* tag_value: the stripped text of a tag, empty when the tag is absent
tag_value(raw_tag) == Strip(raw_tag)

\* rel_parent_parts: the parts of the path below add_root, the file's own name
\* among them, without a leading "To Playlist"
rel_parent_parts(f) ==
    IF f.path[1] = PLAYLIST_STAGE_FOLDER THEN Tail(f.path) ELSE f.path

artist_value(f) ==
    IF tag_value(f.artist) # <<>> THEN tag_value(f.artist)
    ELSE IF rel_parent_parts(f) # <<>> THEN rel_parent_parts(f)[1]
    ELSE <<>>

album_value(f) ==
    IF tag_value(f.album) # <<>> THEN tag_value(f.album)
    ELSE IF Len(rel_parent_parts(f)) > 1 THEN rel_parent_parts(f)[2]
    ELSE <<>>

title_value(f) ==
    IF tag_value(f.title) # <<>> THEN tag_value(f.title)
    ELSE Stem(FileName(f.path))

dest_dir(f) ==
    <<safe_path_component(artist_value(f), UnknownArtist),
      safe_path_component(album_value(f), UnknownAlbum)>>

dest_path(f) ==
    dest_dir(f) \o
    <<safe_path_component(title_value(f), Stem(FileName(f.path)))
      \o Lower(Suffix(FileName(f.path)))>>

\* Only a directory counts as present.
ExistsAsDirectory(files, dirs, path) == path \in dirs

\* Path.exists() below music_root
Exists(files, dirs, path) == path \in DOMAIN files \/ path \in dirs

\* The stems are compared as they are written.
SameTitleRaw(stem, title) == stem = title

\* existing_canonical == canonical_title
SameTitle(stem, title) == canonicalize_string(stem) = canonicalize_string(title)

\* the regular files directly in dest_dir that the scan takes for the incoming title
DuplicateTargets(files, f) ==
    {p \in DOMAIN files :
        /\ Len(p) = Len(dest_dir(f)) + 1
        /\ SubSeq(p, 1, Len(dest_dir(f))) = dest_dir(f)
        /\ SameTitle(Stem(FileName(p)), title_value(f))}

\* dest_dir.exists() holds and dest_dir.iterdir() raises NotADirectoryError, which
\* the except clause for FileNotFoundError does not catch
ScanRaises(files, f) == dest_dir(f) \in DOMAIN files

\* dest_dir.mkdir(parents=True, exist_ok=True) raises when a regular file is in the way
MkdirFails(files, dir) == Prefixes(dir) \cap DOMAIN files # {}

\* How the iteration for f ends: "none" for a file the filters pass over, "raise"
\* for an exception that leaves the function, otherwise the status recorded.
Status(f, files, dirs) ==
    IF ~Candidate(f) THEN "none"
    ELSE IF f.unreadable THEN "error_read"
    ELSE IF artist_value(f) = <<>> THEN "skipped_unknown_artist"
    ELSE IF album_value(f) = <<>> THEN "skipped_unknown_album"
    ELSE IF title_value(f) = <<>> THEN "skipped_missing_tags"
    ELSE IF Exists(files, dirs, dest_dir(f)) /\ ScanRaises(files, f) THEN "raise"
    ELSE IF Exists(files, dirs, dest_path(f)) THEN "skipped_exists"
    ELSE IF DuplicateTargets(files, f) # {} THEN "skipped_duplicate_title"
    ELSE IF MkdirFails(files, dest_dir(f)) \/ f.immovable THEN "error_move"
    ELSE "moved"

\* what a file of the library holds: where it came from
Content(f) == [origin |-> "staging", path |-> f.path]

PutFile(files, path, content) ==
    [p \in DOMAIN files \cup {path} |-> IF p = path THEN content ELSE files[p]]

\* The file is copied into the destination directory under its own name and
\* the source is kept.
shutil_copy_into_dir(tree, files, f) ==
    [tree |-> tree,
     files |-> PutFile(files, dest_dir(f) \o <<FileName(f.path)>>, Content(f))]

\* shutil.move(str(file_path), str(dest_path)) that succeeds
shutil_move(tree, files, f) ==
    [tree |-> tree \ {f}, files |-> PutFile(files, dest_path(f), Content(f))]

\* shutil.move that raises: the source is kept, and the destination is either
\* untouched or holds what was copied before the failure
FailedMove(files, f, partial) ==
    IF partial THEN PutFile(files, dest_path(f), [origin |-> "partial", path |-> f.path])
    ELSE files

\* The directory is made as soon as the tags are read.
DirsAfterEager(dirs, files, f, status) ==
    IF status \in {"none", "error_read", "raise"} \/ MkdirFails(files, dest_dir(f))
    THEN dirs
    ELSE dirs \cup Prefixes(dest_dir(f))

\* dest_dir.mkdir(parents=True, exist_ok=True), reached when no check ended the iteration
DirsAfter(dirs, files, f, status) ==
    IF status \in {"moved", "error_move"} /\ ~MkdirFails(files, dest_dir(f))
    THEN dirs \cup Prefixes(dest_dir(f))
    ELSE dirs

\* the action dict appended for f; an absent field (pd.NA) is the empty sequence.
\* reason holds the path that the message names.
Action(f, status, target) ==
    [source |-> f.path,
     destination |-> IF status = "moved" THEN dest_path(f) ELSE <<>>,
     playlist_target |-> PlaylistTarget(f),
     status |-> status,
     reason |-> IF status = "skipped_exists" THEN dest_path(f)
                ELSE IF status = "skipped_duplicate_title" THEN target ELSE <<>>,
     artist |-> IF status = "moved" THEN artist_value(f) ELSE <<>>,
     album |-> IF status = "moved" THEN album_value(f) ELSE <<>>,
     title |-> IF status = "moved" THEN title_value(f) ELSE <<>>]

\* sorted(add_root.rglob('*')), its regular files
SortedFiles(tree) ==
    [i \in 1..Cardinality(tree) |->
        CHOOSE f \in tree :
            Cardinality({g \in tree : PathLess(g.path, f.path)}) = i - 1]

MaxRuns == 2

\* lines 419-445: the staging folders are ensured and the tree is listed
StartRun ==
    /\ ipc \in {"ready", "returned", "raised"}
    /\ run < MaxRuns
    /\ run' = run + 1
    /\ add_dirs' = add_dirs \cup {<<PLAYLIST_STAGE_FOLDER>>} \cup StagingDirs
    /\ actions' = <<>>
    /\ add_files' = SortedFiles(add_tree)
    /\ idx' = 1
    /\ ipc' = "running"
    /\ UNCHANGED <<add_tree, music_files, music_dirs, playlist_updates, logs,
                   cvars, mvars>>

\* one iteration of the loop over add_files
ProcessFile ==
    /\ ipc = "running"
    /\ idx <= Len(add_files)
    /\ LET f == add_files[idx]
           status == Status(f, music_files, music_dirs)
           moved == shutil_move(add_tree, music_files, f)
       IN /\ status # "raise"
          /\ \E partial \in IF status = "error_move"
                               /\ ~MkdirFails(music_files, dest_dir(f))
                            THEN BOOLEAN ELSE {FALSE} :
             \E target \in IF status = "skipped_duplicate_title"
                           THEN DuplicateTargets(music_files, f) ELSE {<<>>} :
                /\ add_tree' = IF status = "moved" THEN moved.tree ELSE add_tree
                /\ music_files' =
                       IF status = "moved" THEN moved.files
                       ELSE IF status = "error_move"
                       THEN FailedMove(music_files, f, partial)
                       ELSE music_files
                /\ music_dirs' = DirsAfter(music_dirs, music_files, f, status)
                /\ actions' = IF status = "none" THEN actions
                              ELSE Append(actions, Action(f, status, target))
    /\ idx' = idx + 1
    /\ UNCHANGED <<add_dirs, add_files, playlist_updates, logs, run, ipc, cvars, mvars>>

\* the duplicate scan raises: the exception leaves process_new_additions
ScanError ==
    /\ ipc = "running"
    /\ idx <= Len(add_files)
    /\ Status(add_files[idx], music_files, music_dirs) = "raise"
    /\ ipc' = "raised"
    /\ UNCHANGED <<fsvars, add_files, idx, actions, playlist_updates, logs, run,
                   cvars, mvars>>

\* moved.groupby('playlist_target', dropna=True).size(), sorted by tracks_added
PlaylistUpdates(result) ==
    LET moved == SelectSeq(result, LAMBDA a : a.status = "moved" /\ a.playlist_target # <<>>)
        rows == {[playlist_name |-> n,
                  tracks_added |-> Len(SelectSeq(moved, LAMBDA a : a.playlist_target = n))] :
                    n \in {moved[i].playlist_target : i \in 1..Len(moved)}}
    IN [i \in 1..Cardinality(rows) |->
           CHOOSE r \in rows :
               Cardinality({q \in rows :
                   \/ q.tracks_added > r.tracks_added
                   \/ /\ q.tracks_added = r.tracks_added
                      /\ StrLess(q.playlist_name, r.playlist_name)}) = i - 1]

\* lines 577-591: the tables are built and returned
ReturnRun ==
    /\ ipc = "running"
    /\ idx > Len(add_files)
    /\ playlist_updates' = PlaylistUpdates(actions)
    /\ logs' = Append(logs, [run |-> run, result |-> actions])
    /\ ipc' = "returned"
    /\ UNCHANGED <<fsvars, add_files, idx, actions, run, cvars, mvars>>

----------------------------------------------------------------------------
(* The staging trees and libraries an import starts from                   *)

MaxStaged == 2

Art == <<"A","r","t">>
Alb == <<"A","l","b">>

StagedFile(path, artist, album, title, unreadable, immovable) ==
    [path |-> path, artist |-> artist, album |-> album, title |-> title,
     unreadable |-> unreadable, immovable |-> immovable]

StagedUniverse ==
    { \* untagged files at depth 0, 1 and 2 of the staging root
      StagedFile(<<<<"s","o","n","g",".","m","p","3">>>>, <<>>, <<>>, <<>>, FALSE, FALSE),
      StagedFile(<<Art, <<"s","o","n","g",".","m","p","3">>>>, <<>>, <<>>, <<>>, FALSE, FALSE),
      StagedFile(<<Art, Alb, <<"S","o","n","g",".","m","p","3">>>>, <<>>, <<>>, <<>>, FALSE, FALSE),
      StagedFile(<<Art, Alb, <<"S","o","n","g",".","f","l","a","c">>>>, <<>>, <<>>, <<>>, FALSE, FALSE),
      \* a tagged file whose name is not its title
      StagedFile(<<<<"t","r","a","c","k","0","1",".","M","P","3">>>>, Art, Alb, <<"S","o","n","g">>, FALSE, FALSE),
      \* a file whose tags cannot be read, and one that cannot be moved
      StagedFile(<<<<"b","a","d",".","m","p","3">>>>, <<>>, <<>>, <<>>, TRUE, FALSE),
      StagedFile(<<Art, Alb, <<"O","t","h","e","r",".","m","p","3">>>>, <<>>, <<>>, <<>>, FALSE, TRUE),
      \* one recording in two formats, its title holding a character that
      \* safe_path_component deletes
      StagedFile(<<<<"t",".","m","p","3">>>>, Art, Alb, <<"S",":","g">>, FALSE, FALSE),
      StagedFile(<<<<"t",".","f","l","a","c">>>>, Art, Alb, <<"S",":","g">>, FALSE, FALSE),
      \* a second copy of that recording in the first one's format
      StagedFile(<<<<"u",".","m","p","3">>>>, Art, Alb, <<"S",":","g">>, FALSE, FALSE),
      \* a file staged for a playlist
      StagedFile(<<PLAYLIST_STAGE_FOLDER, <<"P","L">>, <<"x",".","o","g","g">>>>, Art, Alb, <<>>, FALSE, FALSE),
      \* not an audio file
      StagedFile(<<<<"n","o","t","e","s",".","t","x","t">>>>, <<>>, <<>>, <<>>, FALSE, FALSE) }

LibraryUniverse ==
    { <<Art, Alb, <<"S","o","n","g",".","m","p","3">>>>, <<Art, Alb, <<"s","o","n","g",".","f","l","a","c">>>>,
      \* a track lying loose in the artist's folder
      <<Art, <<"s","o","n","g",".","m","p","3">>>> }

ImportInit ==
    /\ add_tree \in {t \in SUBSET StagedUniverse : Cardinality(t) <= MaxStaged}
    /\ add_dirs = UNION {Parents(f.path) : f \in add_tree}
    /\ \E lib \in SUBSET LibraryUniverse :
          /\ music_files = [p \in lib |-> [origin |-> "library", path |-> p]]
          /\ music_dirs = UNION {Parents(p) : p \in lib}
    /\ add_files = <<>>
    /\ idx = 0
    /\ actions = <<>>
    /\ playlist_updates = <<>>
    /\ logs = <<>>
    /\ run = 0
    /\ ipc = "ready"
    /\ CanonIdle
    /\ MatchIdle

ImportNext == StartRun \/ ProcessFile \/ ScanError \/ ReturnRun

Spec == ImportInit /\ [][ImportNext]_vars

\* one iteration of the loop is taken, for the file add_files[idx]
ProcessStep == ipc = "running" /\ idx <= Len(add_files) /\ idx' = idx + 1

\* the iteration has appended an action
Recorded == Len(actions') = Len(actions) + 1

\* tags were read and artist, album and title are known
Resolved(f) ==
    /\ Candidate(f)
    /\ ~f.unreadable
    /\ artist_value(f) # <<>>
    /\ album_value(f) # <<>>
    /\ title_value(f) # <<>>

\* the destination album directory holds a regular file whose stem canonicalizes
\* to the incoming title's key
DirHoldsTitle(f) ==
    \E p \in DOMAIN music_files :
        /\ Len(p) = 3
        /\ <<p[1], p[2]>> = dest_dir(f)
        /\ canonicalize_string(Stem(p[3])) = canonicalize_string(title_value(f))

\* C3 as claimed: a file whose destination album directory already holds its
\* title is classified skipped_duplicate_title, whether or not the exact
\* destination exists, and nothing is moved.
C3_DuplicateDecidedFirst ==
    [][ProcessStep /\ Resolved(add_files[idx]) /\ DirHoldsTitle(add_files[idx])
        => /\ Recorded
           /\ actions'[Len(actions')].status = "skipped_duplicate_title"
           /\ UNCHANGED fsvars]_vars

\* C3 as amended: such a file is not moved; it is classified skipped_exists when
\* its exact destination path exists and skipped_duplicate_title otherwise.
C3_DuplicateOrExists ==
    [][ProcessStep /\ Resolved(add_files[idx]) /\ DirHoldsTitle(add_files[idx])
        => /\ Recorded
           /\ actions'[Len(actions')].status =
                  IF Exists(music_files, music_dirs, dest_path(add_files[idx]))
                  THEN "skipped_exists" ELSE "skipped_duplicate_title"
           /\ UNCHANGED fsvars]_vars

\* one run has met both cases: a title already in the directory under another
\* name, and the exact destination
C3_Witness ==
    /\ \E i \in 1..Len(actions) : actions[i].status = "skipped_duplicate_title"
    /\ \E i \in 1..Len(actions) :
           /\ actions[i].status = "skipped_exists"
           /\ actions[i].reason \in DOMAIN music_files
           /\ music_files[actions[i].reason].origin = "library"

\* C4: a run that follows a run, with nothing added or changed in between,
\* records no action with status moved.
C4_SecondRunMovesNothing ==
    \A i \in 1..Len(logs) :
        logs[i].run >= 2 =>
            \A k \in 1..Len(logs[i].result) : logs[i].result[k].status # "moved"

\* a first run that moved a file and a second run that classified the files left
C4_Witness ==
    \E i, j \in 1..Len(logs) :
        /\ logs[i].run = 1
        /\ \E k \in 1..Len(logs[i].result) : logs[i].result[k].status = "moved"
        /\ logs[j].run = 2
        /\ logs[j].result # <<>>

TerminalStatuses ==
    {"moved", "error_read", "error_move", "skipped_unknown_artist",
     "skipped_unknown_album", "skipped_missing_tags", "skipped_duplicate_title",
     "skipped_exists", "skipped_missing_source"}

\* C5: a run always ends by returning, and then every candidate file of the
\* staging tree has exactly one action, with one terminal status.
C5_EveryCandidateClassified ==
    /\ ipc # "raised"
    /\ ipc = "returned" =>
           \A k \in 1..Len(add_files) :
               Candidate(add_files[k]) =>
                   /\ Cardinality({a \in 1..Len(actions) :
                                       actions[a].source = add_files[k].path}) = 1
                   /\ \A a \in 1..Len(actions) : actions[a].status \in TerminalStatuses

LeftInPlace ==
    {"skipped_unknown_artist", "skipped_unknown_album", "skipped_missing_tags",
     "skipped_duplicate_title", "skipped_exists", "error_read"}

\* C6: an iteration that records a skip or error_read leaves the staging tree and
\* the music library as they were: no file moved, no directory made.
C6_SkippedLeavesTreesAlone ==
    [][ProcessStep /\ Recorded /\ actions'[Len(actions')].status \in LeftInPlace
        => UNCHANGED fsvars]_vars

\* a run that skipped a file for its album and failed to read another
C6_Witness ==
    /\ ipc = "returned"
    /\ \E i \in 1..Len(actions) : actions[i].status = "skipped_unknown_album"
    /\ \E i \in 1..Len(actions) : actions[i].status = "error_read"

\* two paths that differ only in the file extension
DifferOnlyInExtension(p, q) ==
    /\ p # q
    /\ Len(p) = Len(q)
    /\ SubSeq(p, 1, Len(p) - 1) = SubSeq(q, 1, Len(q) - 1)
    /\ Stem(FileName(p)) = Stem(FileName(q))

\* C11: within one run, of two staged files that resolve to the same artist,
\* album and title and differ only in file extension, at most one is moved,
\* whatever characters the title holds.
C11_OneFormatMoved ==
    \A i, j \in 1..Len(actions) :
        /\ actions[i].status = "moved"
        /\ actions[j].status = "moved"
        /\ actions[i].artist = actions[j].artist
        /\ actions[i].album = actions[j].album
        /\ actions[i].title = actions[j].title
        => ~DifferOnlyInExtension(actions[i].source, actions[j].source)

\* C12: an untagged file lying directly in the staging root is classified
\* skipped_unknown_artist, and one with exactly one directory above it (the
\* reserved "To Playlist" folder not counted) skipped_unknown_album: the
\* file's own name never serves as artist or album.
C12_FallbackUsesDirectoriesOnly ==
    \A k \in 1..Len(actions) : \A i \in 1..Len(add_files) :
        LET f == add_files[i]
            above == SubSeq(f.path, 1, Len(f.path) - 1)
            segments == IF above # <<>> /\ above[1] = PLAYLIST_STAGE_FOLDER
                        THEN Tail(above) ELSE above
        IN /\ f.path = actions[k].source
           /\ ~f.unreadable
           /\ tag_value(f.artist) = <<>>
           /\ tag_value(f.album) = <<>>
           /\ tag_value(f.title) = <<>>
           => /\ Len(segments) = 0 => actions[k].status = "skipped_unknown_artist"
              /\ Len(segments) = 1 => actions[k].status = "skipped_unknown_album"

\* C13: no step of an import run removes or changes a file of the music
\* library, so every file there before the run is there after it with the same
\* content, and no two actions of one run moved onto the same destination path.
C13_LibraryFilesKept ==
    [][/\ \A p \in DOMAIN music_files :
              p \in DOMAIN music_files' /\ music_files'[p] = music_files[p]
       /\ \A i, j \in 1..Len(actions') :
              /\ i # j
              /\ actions'[i].status = "moved"
              /\ actions'[j].status = "moved"
              => actions'[i].destination # actions'[j].destination]_vars

\* a run that moved a file into a directory of the library and then met a
\* second staged file with that same destination path
C13_Witness ==
    /\ ipc = "returned"
    /\ \E i, j \in 1..Len(actions) :
          /\ i < j
          /\ actions[i].status = "moved"
          /\ actions[j].status = "skipped_exists"
          /\ actions[j].reason = actions[i].destination
          /\ \E p \in DOMAIN music_files :
                /\ music_files[p].origin = "library"
                /\ Len(p) = Len(actions[i].destination)
                /\ SubSeq(p, 1, Len(p) - 1) =
                       SubSeq(actions[i].destination, 1, Len(p) - 1)

====
